---- MODULE Spec2Model ----
(***************************************************************************)
(* Model of the VEML6040 driver with automatic integration-time selection. *)
(*                                                                         *)
(*   configuration.rs     Veml6040: configuration writes over the shadow   *)
(*   integration_time.rs  IntegrationTime: the six settings                *)
(*   reading.rs           Veml6040: channel reads                          *)
(*   wrapper.rs           AutoVeml6040: new, read_absolute_once,           *)
(*                        read_absolute_retry                              *)
(*                                                                         *)
(* Brightness values are f32 in the source; here they are exact integers   *)
(* in units of 0.007865 lux, the smallest of the six sensitivities.         *)
(***************************************************************************)
EXTENDS Integers, Sequences, FiniteSets, TLC

(***************************************************************************)
(* Bounds of the model                                                     *)
(***************************************************************************)
\* read_absolute_retry has no iteration bound; the model stops a retry loop
\* after this many calls of read_absolute_once.
MaxCalls == 7

(***************************************************************************)
(* Bit arithmetic on u8                                                    *)
(***************************************************************************)
RECURSIVE Pow2(_)
Pow2(n) == IF n = 0 THEN 1 ELSE 2 * Pow2(n - 1)

Bit(b, n) == (b \div Pow2(n)) % 2

RECURSIVE AndFrom(_, _, _)
AndFrom(a, b, n) ==
    IF n > 7 THEN 0 ELSE Bit(a, n) * Bit(b, n) * Pow2(n) + AndFrom(a, b, n + 1)

\* a & b
BitAnd(a, b) == AndFrom(a, b, 0)

\* !a
BitNot(a) == 255 - a

\* a | b
BitOr(a, b) == a + b - BitAnd(a, b)

(***************************************************************************)
(* Register layout (crate root: BitFlags, Register, Veml6040::new)         *)
(***************************************************************************)
SHUTDOWN == 1
AF == 2
TRIG == 4
IT_BITS == 112

CONFIG == 0
R_DATA == 8
G_DATA == 9
B_DATA == 10
W_DATA == 11

\* The shadow of a freshly constructed Veml6040: the device powers up in
\* shutdown.
DEFAULT_CONFIG == 1

(***************************************************************************)
(* integration_time.rs                                                     *)
(***************************************************************************)
IntegrationTime == {"_40ms", "_80ms", "_160ms", "_320ms", "_640ms", "_1280ms"}

None == "None"

millis(it) ==
    CASE it = "_40ms" -> 40
      [] it = "_80ms" -> 80
      [] it = "_160ms" -> 160
      [] it = "_320ms" -> 320
      [] it = "_640ms" -> 640
      [] it = "_1280ms" -> 1280

\* waiting_time_millis without the margin of 40 ms
waiting_time_millis_no_margin(it) == millis(it)

waiting_time_millis(it) == millis(it) + 40

\* The unit of brightness values: 0.007865 lux, written in 10^-6 lux. All six
\* sensitivities are whole multiples of it.
SensUnit == 7865

\* f32 lux per count, in SensUnit
sensitivity(it) ==
    CASE it = "_40ms" -> 251680 \div SensUnit
      [] it = "_80ms" -> 125840 \div SensUnit
      [] it = "_160ms" -> 62920 \div SensUnit
      [] it = "_320ms" -> 31460 \div SensUnit
      [] it = "_640ms" -> 15730 \div SensUnit
      [] it = "_1280ms" -> 7865 \div SensUnit

bit_pattern(it) ==
    CASE it = "_40ms" -> 0
      [] it = "_80ms" -> 16
      [] it = "_160ms" -> 32
      [] it = "_320ms" -> 48
      [] it = "_640ms" -> 64
      [] it = "_1280ms" -> 80

\* longer() wrapping around from the longest setting to the shortest
longer_wrapping(it) ==
    CASE it = "_40ms" -> "_80ms"
      [] it = "_80ms" -> "_160ms"
      [] it = "_160ms" -> "_320ms"
      [] it = "_320ms" -> "_640ms"
      [] it = "_640ms" -> "_1280ms"
      [] it = "_1280ms" -> "_40ms"

\* The next setting with strictly greater duration, or None at the longest.
longer(it) ==
    CASE it = "_40ms" -> "_80ms"
      [] it = "_80ms" -> "_160ms"
      [] it = "_160ms" -> "_320ms"
      [] it = "_320ms" -> "_640ms"
      [] it = "_640ms" -> "_1280ms"
      [] it = "_1280ms" -> None

\* The next setting with strictly smaller duration, or None at the shortest.
shorter(it) ==
    CASE it = "_40ms" -> None
      [] it = "_80ms" -> "_40ms"
      [] it = "_160ms" -> "_80ms"
      [] it = "_320ms" -> "_160ms"
      [] it = "_640ms" -> "_320ms"
      [] it = "_1280ms" -> "_640ms"

(***************************************************************************)
(* configuration.rs: the byte each operation hands to write_config         *)
(***************************************************************************)
enable_byte(c) == BitAnd(c, BitNot(SHUTDOWN))

disable_byte(c) == BitOr(c, SHUTDOWN)

\* set_integration_time without clearing the old integration-time bits
set_integration_time_keeps_old_bits(c, it) == BitOr(c, bit_pattern(it))

set_integration_time_byte(c, it) == BitOr(BitAnd(c, BitNot(IT_BITS)), bit_pattern(it))

\* set_measurement_mode with the two arms exchanged
set_measurement_mode_swapped(c, mode) ==
    IF mode = "Auto" THEN BitOr(c, AF) ELSE BitAnd(c, BitNot(AF))

set_measurement_mode_byte(c, mode) ==
    IF mode = "Auto" THEN BitAnd(c, BitNot(AF)) ELSE BitOr(c, AF)

\* trigger_measurement sending TRIG alone instead of the shadow with TRIG
trigger_byte_flag_only(c) == TRIG

\* trigger_measurement, line 47: the shadow with TRIG set
trigger_byte(c) == BitOr(c, TRIG)

\* write_config storing the byte before the outcome of the write is known
write_config_shadow_always(c, byte, ok) == byte

\* write_config: the shadow takes the byte only when the bus write succeeded
write_config_shadow(c, byte, ok) == IF ok THEN byte ELSE c

\* trigger_measurement going through write_config
trigger_shadow_stored(c, byte, ok) == IF ok THEN byte ELSE c

\* trigger_measurement: the byte sent is never stored in the shadow
trigger_shadow(c, byte, ok) == c

(***************************************************************************)
(* reading.rs                                                              *)
(***************************************************************************)
\* u16::from(data[1]) << 8 | u16::from(data[0]); data is 1-indexed here
read_channel_value(data) == ((data[2] * 256) % 65536) + data[1]

(***************************************************************************)
(* wrapper.rs: thresholds and the pure parts of read_absolute_once         *)
(***************************************************************************)
DARK_THRESHOLD_SOFT == 500
DARK_THRESHOLD_HARD == 10
BRIGHT_THRESHOLD_SOFT == 20000
BRIGHT_THRESHOLD_HARD == 64000

\* lines 86-94 with the two directions exchanged
new_integration_time_opt_swapped(green, it) ==
    IF green < DARK_THRESHOLD_SOFT THEN shorter(it)
    ELSE IF green > BRIGHT_THRESHOLD_SOFT THEN longer(it)
    ELSE None

\* lines 86-94 with inclusive comparisons
new_integration_time_opt_inclusive(green, it) ==
    IF green <= DARK_THRESHOLD_SOFT THEN longer(it)
    ELSE IF green >= BRIGHT_THRESHOLD_SOFT THEN shorter(it)
    ELSE None

\* lines 86-94 comparing against the hard thresholds
new_integration_time_opt_hard(green, it) ==
    IF green < DARK_THRESHOLD_HARD THEN longer(it)
    ELSE IF green > BRIGHT_THRESHOLD_HARD THEN shorter(it)
    ELSE None

\* lines 86-94
new_integration_time_opt_of(green, it) ==
    IF green < DARK_THRESHOLD_SOFT THEN longer(it)
    ELSE IF green > BRIGHT_THRESHOLD_SOFT THEN shorter(it)
    ELSE None

\* line 97 moved behind the switch of lines 99-103
saved_sensitivity_after_switch(it, opt) ==
    sensitivity(IF opt = None THEN it ELSE opt)

\* line 97: the sensitivity saved for the result; it is read from
\* self.integration_time before line 100 assigns the new setting
saved_sensitivity(it, opt) == sensitivity(it)

\* lines 105-126 without the test whether a new setting was found
outcome_always_relative(green, opt) ==
    IF green < DARK_THRESHOLD_HARD THEN "TooDarkRelative"
    ELSE IF green > BRIGHT_THRESHOLD_HARD THEN "TooBrightRelative"
    ELSE "Ok"

\* lines 105-126 with the two bright results exchanged
outcome_bright_swapped(green, opt) ==
    IF green < DARK_THRESHOLD_HARD
    THEN (IF opt = None THEN "TooDarkAbsolute" ELSE "TooDarkRelative")
    ELSE IF green > BRIGHT_THRESHOLD_HARD
    THEN (IF opt = None THEN "TooBrightRelative" ELSE "TooBrightAbsolute")
    ELSE "Ok"

\* lines 105-126: the kind of result
outcome(green, opt) ==
    IF green < DARK_THRESHOLD_HARD
    THEN (IF opt = None THEN "TooDarkAbsolute" ELSE "TooDarkRelative")
    ELSE IF green > BRIGHT_THRESHOLD_HARD
    THEN (IF opt = None THEN "TooBrightAbsolute" ELSE "TooBrightRelative")
    ELSE "Ok"

\* lines 137-141 returning on every result that is not a read error
retry_returns_relative_too(kind) == kind # "ReadErr"

\* lines 137-141: the results on which read_absolute_retry returns
retry_returns(kind) == kind \in {"TooDarkAbsolute", "TooBrightAbsolute", "Ok"}

(***************************************************************************)
(* Inputs: what the device answers                                         *)
(***************************************************************************)
\* green counts around the four thresholds and at both ends of u16
GreenCounts == {0, 9, 10, 499, 500, 20000, 20001, 64000, 64001, 65535}

\* counts of the red, blue and white channels
RedCounts == {1, 65535}

BlueCounts == {2}

WhiteCounts == {3}

\* the two bytes of a data register, low byte first
le_bytes(v) == <<v % 256, v \div 256>>

(***************************************************************************)
(* State                                                                   *)
(***************************************************************************)
VARIABLES
    pc,                 \* position of the single thread of control
    op,                 \* the operation running or last returned: new, once, retry
    integration_time,   \* AutoVeml6040.integration_time
    config,             \* Veml6040.config, the shadow of the CONFIG register
    device,             \* last byte the device acknowledged for CONFIG, -1: none
    bus,                \* bus operations and sleeps of the current operation
    reading,            \* AllChannelMeasurement being read
    new_integration_time_opt,
    sens,               \* local `sensitivity` of read_absolute_once
    result,             \* result of the current read_absolute_once
    retResult,          \* what the operation returned to the caller
    calls,              \* read_absolute_once calls started by the operation
    ioFailed,           \* a bus operation failed during the operation
    relDirs,            \* directions of the relative failures of the operation
    darkStream,         \* the count below DARK_THRESHOLD_HARD that every green
                        \* read of the operation returned; -1: nothing read
                        \* yet, -2: the reads differed or one was not dark
    it_at_trigger,      \* active setting when the current call triggered
    config_at_trigger   \* shadow when the current call triggered

vars == <<pc, op, integration_time, config, device, bus, reading,
          new_integration_time_opt, sens, result, retResult, calls, ioFailed,
          relDirs, darkStream, it_at_trigger, config_at_trigger>>

NoReading == [red |-> 0, green |-> 0, blue |-> 0, white |-> 0]

NoResult == [kind |-> "None", red |-> 0, green |-> 0, blue |-> 0, white |-> 0]

\* Err(AbsoluteMeasurementError::...)
ErrResult(k) == [kind |-> k, red |-> 0, green |-> 0, blue |-> 0, white |-> 0]

\* error_mapper
ReadErr == ErrResult("ReadErr")

\* Ok(AbsoluteMeasurementChannels { .. }), lines 118-125
OkResult(s, r) ==
    [kind |-> "Ok", red |-> s * r.red, green |-> s * r.green,
     blue |-> s * r.blue, white |-> s * r.white]

WriteEv(byte, ok) == [ev |-> "write", reg |-> CONFIG, val |-> byte, ok |-> ok]

ReadEv(r, ok) == [ev |-> "read", reg |-> r, val |-> 0, ok |-> ok]

SleepEv(ms) == [ev |-> "sleep", reg |-> 0, val |-> ms, ok |-> TRUE]

ghosts == <<calls, ioFailed, relDirs, darkStream, it_at_trigger,
            config_at_trigger>>

locals == <<reading, new_integration_time_opt, sens, result, retResult>>

Init ==
    /\ pc = "new_enable"
    /\ op = "new"
    /\ integration_time = "_160ms"
    /\ config = DEFAULT_CONFIG
    /\ device = -1
    /\ bus = <<>>
    /\ reading = NoReading
    /\ new_integration_time_opt = None
    /\ sens = 0
    /\ result = NoResult
    /\ retResult = NoResult
    /\ calls = 0
    /\ ioFailed = FALSE
    /\ relDirs = {}
    /\ darkStream = -1
    /\ it_at_trigger = "_160ms"
    /\ config_at_trigger = DEFAULT_CONFIG

(***************************************************************************)
(* AutoVeml6040::new, wrapper.rs 63-74                                     *)
(***************************************************************************)
\* One configuration write of the constructor; unwrap() panics on failure.
NewWrite(here, byte, next) ==
    /\ pc = here
    /\ \E ok \in BOOLEAN :
        /\ bus' = Append(bus, WriteEv(byte, ok))
        /\ config' = write_config_shadow(config, byte, ok)
        /\ device' = IF ok THEN byte ELSE device
        /\ ioFailed' = (ioFailed \/ ~ok)
        /\ pc' = IF ok THEN next ELSE "panicked"
    /\ UNCHANGED <<op, integration_time, locals, calls, relDirs, darkStream, it_at_trigger, config_at_trigger>>

NewEnable == NewWrite("new_enable", enable_byte(config), "new_set_it")

NewSetIntegrationTime ==
    NewWrite("new_set_it", set_integration_time_byte(config, integration_time),
             "new_set_mode")

NewSetMeasurementMode ==
    NewWrite("new_set_mode", set_measurement_mode_byte(config, "Manual"), "idle")

(***************************************************************************)
(* The caller                                                              *)
(***************************************************************************)
Call(which) ==
    /\ pc = "idle"
    /\ pc' = "once_start"
    /\ op' = which
    /\ calls' = 1
    /\ ioFailed' = FALSE
    /\ relDirs' = {}
    /\ darkStream' = -1
    /\ retResult' = NoResult
    /\ UNCHANGED <<integration_time, config, device, bus, reading,
                   new_integration_time_opt, sens, result, it_at_trigger,
                   config_at_trigger>>

CallOnce == Call("once")

CallRetry == Call("retry")

(***************************************************************************)
(* AutoVeml6040::read_absolute_once, wrapper.rs 79-129                     *)
(***************************************************************************)
\* line 80: trigger_measurement (configuration.rs 42-50) sends the shadow
\* with TRIG set and does not store it
Trigger ==
    /\ pc = "once_start"
    /\ \E ok \in BOOLEAN :
        /\ bus' = <<WriteEv(trigger_byte(config), ok)>>
        /\ config' = trigger_shadow(config, trigger_byte(config), ok)
        /\ device' = IF ok THEN trigger_byte(config) ELSE device
        /\ ioFailed' = (ioFailed \/ ~ok)
        /\ result' = IF ok THEN NoResult ELSE ReadErr
        /\ pc' = IF ok THEN "sleep" ELSE "once_ret"
    /\ reading' = NoReading
    /\ new_integration_time_opt' = None
    /\ sens' = 0
    /\ it_at_trigger' = integration_time
    /\ config_at_trigger' = config
    /\ UNCHANGED <<op, integration_time, retResult, calls, relDirs,
                   darkStream>>

\* lines 81-82
Sleep ==
    /\ pc = "sleep"
    /\ bus' = Append(bus, SleepEv(waiting_time_millis(integration_time)))
    /\ pc' = "read_red"
    /\ UNCHANGED <<op, integration_time, config, device, locals, ghosts>>

DarkStreamAfter(d, g) ==
    IF g < DARK_THRESHOLD_HARD /\ d \in {-1, g} THEN g ELSE -2

\* one channel of read_all_channels with the error of the read dropped: the
\* zeroed buffer is taken as the count and the next channel is read
ReadChannel_error_dropped(here, ch, reg, counts, next) ==
    /\ pc = here
    /\ \/ \E v \in counts :
            /\ bus' = Append(bus, ReadEv(reg, TRUE))
            /\ reading' = [reading EXCEPT ![ch] = read_channel_value(le_bytes(v))]
            /\ pc' = next
            /\ UNCHANGED <<result, ioFailed>>
       \/ /\ bus' = Append(bus, ReadEv(reg, FALSE))
          /\ reading' = [reading EXCEPT ![ch] = read_channel_value(<<0, 0>>)]
          /\ ioFailed' = TRUE
          /\ pc' = next
          /\ UNCHANGED result
    /\ darkStream' = IF ch = "green" /\ pc' = next
                     THEN DarkStreamAfter(darkStream, reading'.green)
                     ELSE darkStream
    /\ UNCHANGED <<op, integration_time, config, device,
                   new_integration_time_opt, sens, retResult, calls, relDirs,
                   it_at_trigger, config_at_trigger>>

\* reading.rs 29-45: one channel of read_all_channels
ReadChannel(here, ch, reg, counts, next) ==
    /\ pc = here
    /\ \/ \E v \in counts :
            /\ bus' = Append(bus, ReadEv(reg, TRUE))
            /\ reading' = [reading EXCEPT ![ch] = read_channel_value(le_bytes(v))]
            /\ pc' = next
            /\ UNCHANGED <<result, ioFailed>>
       \/ /\ bus' = Append(bus, ReadEv(reg, FALSE))
          /\ result' = ReadErr
          /\ ioFailed' = TRUE
          /\ pc' = "once_ret"
          /\ UNCHANGED reading
    /\ darkStream' = IF ch = "green" /\ pc' = next
                     THEN DarkStreamAfter(darkStream, reading'.green)
                     ELSE darkStream
    /\ UNCHANGED <<op, integration_time, config, device,
                   new_integration_time_opt, sens, retResult, calls, relDirs,
                   it_at_trigger, config_at_trigger>>

ReadRed == ReadChannel("read_red", "red", R_DATA, RedCounts, "read_green")

ReadGreen == ReadChannel("read_green", "green", G_DATA, GreenCounts, "read_blue")

ReadBlue == ReadChannel("read_blue", "blue", B_DATA, BlueCounts, "read_white")

ReadWhite == ReadChannel("read_white", "white", W_DATA, WhiteCounts, "adjust")

\* lines 84-103: choose the new setting, save the sensitivity, switch
Adjust ==
    /\ pc = "adjust"
    /\ LET opt == new_integration_time_opt_of(reading.green, integration_time)
           byte == set_integration_time_byte(config, opt)
       IN /\ new_integration_time_opt' = opt
          /\ sens' = saved_sensitivity(integration_time, opt)
          /\ IF opt = None
             THEN /\ pc' = "finish"
                  /\ UNCHANGED <<integration_time, config, device, bus, result,
                                 ioFailed>>
             ELSE /\ integration_time' = opt
                  /\ \E ok \in BOOLEAN :
                       /\ bus' = Append(bus, WriteEv(byte, ok))
                       /\ config' = write_config_shadow(config, byte, ok)
                       /\ device' = IF ok THEN byte ELSE device
                       /\ ioFailed' = (ioFailed \/ ~ok)
                       /\ result' = IF ok THEN result ELSE ReadErr
                       /\ pc' = IF ok THEN "finish" ELSE "once_ret"
    /\ UNCHANGED <<op, reading, retResult, calls, relDirs, darkStream, it_at_trigger, config_at_trigger>>

\* lines 105-126
Finish ==
    /\ pc = "finish"
    /\ LET k == outcome(reading.green, new_integration_time_opt)
       IN /\ result' = IF k = "Ok" THEN OkResult(sens, reading) ELSE ErrResult(k)
          /\ relDirs' = relDirs \cup (IF k = "TooDarkRelative" THEN {"dark"}
                                      ELSE IF k = "TooBrightRelative"
                                      THEN {"bright"} ELSE {})
    /\ pc' = "once_ret"
    /\ UNCHANGED <<op, integration_time, config, device, bus, reading,
                   new_integration_time_opt, sens, retResult, calls, ioFailed,
                   darkStream, it_at_trigger, config_at_trigger>>

\* read_absolute_once returns to a caller that asked for a single reading
ReturnOnce ==
    /\ pc = "once_ret"
    /\ op = "once"
    /\ retResult' = result
    /\ pc' = "idle"
    /\ UNCHANGED <<op, integration_time, config, device, bus, reading,
                   new_integration_time_opt, sens, result, ghosts>>

(***************************************************************************)
(* AutoVeml6040::read_absolute_retry, wrapper.rs 133-145                   *)
(***************************************************************************)
\* lines 135-142: one turn of the loop after read_absolute_once returned
RetryMatch ==
    /\ pc = "once_ret"
    /\ op = "retry"
    /\ IF retry_returns(result.kind)
       THEN /\ retResult' = result
            /\ pc' = "idle"
            /\ UNCHANGED calls
       ELSE /\ calls < MaxCalls
            /\ calls' = calls + 1
            /\ pc' = "once_start"
            /\ UNCHANGED retResult
    /\ UNCHANGED <<op, integration_time, config, device, bus, reading,
                   new_integration_time_opt, sens, result, ioFailed, relDirs,
                   darkStream, it_at_trigger, config_at_trigger>>

Next ==
    \/ NewEnable
    \/ NewSetIntegrationTime
    \/ NewSetMeasurementMode
    \/ CallOnce
    \/ CallRetry
    \/ Trigger
    \/ Sleep
    \/ ReadRed
    \/ ReadGreen
    \/ ReadBlue
    \/ ReadWhite
    \/ Adjust
    \/ Finish
    \/ ReturnOnce
    \/ RetryMatch

Spec == Init /\ [][Next]_vars

(***************************************************************************)
(* Veml6040 used on its own: configuration.rs 12-58                        *)
(*                                                                         *)
(* op is the operation called last, new_integration_time_opt its argument, *)
(* config_at_trigger the shadow before it, bus its bus write, ioFailed     *)
(* whether that write failed, retResult what it returned.                  *)
(***************************************************************************)
MeasurementMode == {"Auto", "Manual"}

\* Ok(())
UnitOk == [NoResult EXCEPT !.kind = "Ok"]

\* Err(Error::I2C(e))
I2CErr == ErrResult("I2C")

\* Veml6040::new: the shadow of a fresh register interface
RegInit ==
    /\ pc = "reg"
    /\ op = "new"
    /\ integration_time = "_160ms"
    /\ config = DEFAULT_CONFIG
    /\ device = -1
    /\ bus = <<>>
    /\ reading = NoReading
    /\ new_integration_time_opt = None
    /\ sens = 0
    /\ result = NoResult
    /\ retResult = NoResult
    /\ calls = 0
    /\ ioFailed = FALSE
    /\ relDirs = {}
    /\ darkStream = -1
    /\ it_at_trigger = "_160ms"
    /\ config_at_trigger = DEFAULT_CONFIG

\* one bus write of the CONFIG register and what the caller gets back
RegWrite(name, arg, byte, ok, shadow) ==
    /\ pc = "reg"
    /\ op' = name
    /\ new_integration_time_opt' = arg
    /\ config_at_trigger' = config
    /\ bus' = <<WriteEv(byte, ok)>>
    /\ device' = IF ok THEN byte ELSE device
    /\ config' = shadow
    /\ ioFailed' = ~ok
    /\ retResult' = IF ok THEN UnitOk ELSE I2CErr
    /\ UNCHANGED <<pc, integration_time, reading, sens, result, calls, relDirs,
                   darkStream, it_at_trigger>>

\* write_config, lines 52-58
write_config(name, arg, byte) ==
    \E ok \in BOOLEAN :
        RegWrite(name, arg, byte, ok, write_config_shadow(config, byte, ok))

\* lines 12-15
enable == write_config("enable", None, enable_byte(config))

\* lines 18-21
disable == write_config("disable", None, disable_byte(config))

\* lines 24-28
set_integration_time ==
    \E it \in IntegrationTime :
        write_config("set_integration_time", it,
                     set_integration_time_byte(config, it))

\* lines 31-37
set_measurement_mode ==
    \E mode \in MeasurementMode :
        write_config("set_measurement_mode", mode,
                     set_measurement_mode_byte(config, mode))

\* lines 42-50
trigger_measurement ==
    \E ok \in BOOLEAN :
        RegWrite("trigger_measurement", None, trigger_byte(config), ok,
                 trigger_shadow(config, trigger_byte(config), ok))

RegNext ==
    \/ enable
    \/ disable
    \/ set_integration_time
    \/ set_measurement_mode
    \/ trigger_measurement

RegSpec == RegInit /\ [][RegNext]_vars

TypeOK ==
    /\ integration_time \in IntegrationTime
    /\ config \in 0..255
    /\ calls \in 0..MaxCalls

(***************************************************************************)
(* Vocabulary of the properties                                            *)
(***************************************************************************)
\* the ladder has six rungs, so five steps lead from one end to the other
LadderDepth == Cardinality(IntegrationTime) - 1

\* the setting with the smallest duration above that of s, None at the top
NextLonger(s) ==
    IF \E t \in IntegrationTime : millis(t) > millis(s)
    THEN CHOOSE t \in IntegrationTime :
            /\ millis(t) > millis(s)
            /\ \A u \in IntegrationTime : millis(u) > millis(s) => millis(t) <= millis(u)
    ELSE None

\* the setting with the greatest duration below that of s, None at the bottom
NextShorter(s) ==
    IF \E t \in IntegrationTime : millis(t) < millis(s)
    THEN CHOOSE t \in IntegrationTime :
            /\ millis(t) < millis(s)
            /\ \A u \in IntegrationTime : millis(u) < millis(s) => millis(t) >= millis(u)
    ELSE None

Longest == CHOOSE t \in IntegrationTime : NextLonger(t) = None

Shortest == CHOOSE t \in IntegrationTime : NextShorter(t) = None

\* the configuration writes of the current operation, in order
Writes == SelectSeq(bus, LAMBDA e : e.ev = "write")

\* the integration-time field of a configuration byte
ItField(byte) == BitAnd(byte, IT_BITS)

\* read_absolute_once has come to its return without a transport failure
OnceReturned == pc = "once_ret" /\ result.kind # "ReadErr"

\* the call left the setting and the configuration alone: the trigger is its
\* only write
NoAdjustment ==
    /\ integration_time = it_at_trigger
    /\ config = config_at_trigger
    /\ Len(Writes) = 1
    /\ device = trigger_byte(config_at_trigger)

\* the call switched to setting t and wrote it to the device
AdjustedTo(t) ==
    /\ t \in IntegrationTime
    /\ integration_time = t
    /\ Len(Writes) = 2
    /\ Writes[2].ok
    /\ ItField(Writes[2].val) = bit_pattern(t)
    /\ device = Writes[2].val
    /\ config = Writes[2].val

C2_ReadErrNotRetried ==
    (op = "retry" /\ result.kind = "ReadErr" /\ pc \in {"once_start", "idle"})
        => (pc = "idle" /\ retResult = result)

(***************************************************************************)
(* C3                                                                      *)
(***************************************************************************)
\* C3: with a working transport and the same dark green count (below
\* DARK_THRESHOLD_HARD) on every read, read_absolute_retry makes at most six
\* calls, no call succeeds, and when it returns the result is TooDarkAbsolute
\* and the active setting is the longest one.
C3_ConstantDarkStream ==
    (op = "retry" /\ ~ioFailed /\ darkStream >= 0) =>
        /\ calls <= LadderDepth + 1
        /\ result.kind # "Ok"
        /\ pc = "idle" =>
              /\ retResult.kind = "TooDarkAbsolute"
              /\ integration_time = "_1280ms"

\* a retry on a constant dark stream that returned after five retries
C3_Witness ==
    /\ op = "retry"
    /\ pc = "idle"
    /\ ~ioFailed
    /\ darkStream >= 0
    /\ calls = LadderDepth + 1
    /\ retResult.kind = "TooDarkAbsolute"

(***************************************************************************)
(* C4                                                                      *)
(***************************************************************************)
\* C4: a call of read_absolute_once without transport failure that read a
\* green count below DARK_THRESHOLD_HARD yields TooDarkAbsolute at the
\* longest setting and leaves setting and configuration unchanged; at every
\* other setting it yields TooDarkRelative and has switched to exactly the
\* next longer setting and written it to the device.
C4_TooDark ==
    (OnceReturned /\ reading.green < DARK_THRESHOLD_HARD) =>
        IF millis(it_at_trigger) = 1280
        THEN result.kind = "TooDarkAbsolute" /\ NoAdjustment
        ELSE result.kind = "TooDarkRelative" /\ AdjustedTo(NextLonger(it_at_trigger))

\* a dark call below the longest setting that switched one step up
C4_Witness ==
    /\ OnceReturned
    /\ reading.green < DARK_THRESHOLD_HARD
    /\ it_at_trigger = "_320ms"
    /\ integration_time = "_640ms"

(***************************************************************************)
(* C5                                                                      *)
(***************************************************************************)
\* C5: a call of read_absolute_once without transport failure that read a
\* green count above BRIGHT_THRESHOLD_HARD yields TooBrightAbsolute at the
\* shortest setting and leaves setting and configuration unchanged; at every
\* other setting it yields TooBrightRelative and has switched to exactly the
\* next shorter setting and written it to the device.
C5_TooBright ==
    (OnceReturned /\ reading.green > BRIGHT_THRESHOLD_HARD) =>
        IF millis(it_at_trigger) = 40
        THEN result.kind = "TooBrightAbsolute" /\ NoAdjustment
        ELSE result.kind = "TooBrightRelative"
             /\ AdjustedTo(NextShorter(it_at_trigger))

\* a bright call at the shortest setting
C5_Witness ==
    /\ OnceReturned
    /\ reading.green > BRIGHT_THRESHOLD_HARD
    /\ it_at_trigger = "_40ms"
    /\ result.kind = "TooBrightAbsolute"

(***************************************************************************)
(* C6                                                                      *)
(***************************************************************************)
\* C6: at every setting a call of read_absolute_once without transport
\* failure that read a green count g with DARK_THRESHOLD_SOFT <= g <=
\* BRIGHT_THRESHOLD_SOFT succeeds, leaves the active setting unchanged, writes
\* no integration time, and returns green = sensitivity(active setting) * g.
C6_SoftWindow ==
    (OnceReturned /\ reading.green >= 500 /\ reading.green <= 20000) =>
        /\ result.kind = "Ok"
        /\ NoAdjustment
        /\ result.green = sensitivity(integration_time) * reading.green

\* a call that read exactly the soft dark threshold
C6_Witness ==
    /\ OnceReturned
    /\ reading.green = DARK_THRESHOLD_SOFT
    /\ result.kind = "Ok"
    /\ it_at_trigger = "_640ms"

(***************************************************************************)
(* C7                                                                      *)
(***************************************************************************)
\* a green count between the hard and the soft threshold on the dark side
Dim(g) == DARK_THRESHOLD_HARD <= g /\ g < DARK_THRESHOLD_SOFT

\* a green count between the soft and the hard threshold on the bright side
Glaring(g) == BRIGHT_THRESHOLD_SOFT < g /\ g <= BRIGHT_THRESHOLD_HARD

\* C7 as stated: at every setting a call of read_absolute_once that read a
\* green count between the hard and the soft threshold of either side
\* succeeds and has adjusted the active setting.
C7_BetweenBoundsAdjustsEverywhere ==
    (OnceReturned /\ (Dim(reading.green) \/ Glaring(reading.green))) =>
        /\ result.kind = "Ok"
        /\ integration_time # it_at_trigger

\* C7 amended: with a working transport such a call succeeds at every
\* setting; it switches to the next longer setting (dark side) or the next
\* shorter setting (bright side) when there is one, and at the longest
\* setting on the dark side, or the shortest on the bright side, it adjusts
\* nothing.
C7_BetweenBoundsAdjustsWhenPossible ==
    (OnceReturned /\ (Dim(reading.green) \/ Glaring(reading.green))) =>
        /\ result.kind = "Ok"
        /\ LET t == IF Dim(reading.green) THEN NextLonger(it_at_trigger)
                    ELSE NextShorter(it_at_trigger)
           IN IF t = None THEN NoAdjustment ELSE AdjustedTo(t)

\* a successful call on the bright side that stepped down
C7_Witness ==
    /\ OnceReturned
    /\ Glaring(reading.green)
    /\ result.kind = "Ok"
    /\ it_at_trigger = "_160ms"
    /\ integration_time = "_80ms"

(***************************************************************************)
(* C8                                                                      *)
(***************************************************************************)
\* C8: every successful call of read_absolute_once returns for each of the
\* four channels the raw count times the sensitivity of the setting that was
\* active when the measurement was triggered, also when the call switched
\* the setting.
C8_SensitivityOfAcquisition ==
    (pc = "once_ret" /\ result.kind = "Ok") =>
        /\ result.red = sensitivity(it_at_trigger) * reading.red
        /\ result.green = sensitivity(it_at_trigger) * reading.green
        /\ result.blue = sensitivity(it_at_trigger) * reading.blue
        /\ result.white = sensitivity(it_at_trigger) * reading.white

\* a successful call that also switched the setting
C8_Witness ==
    /\ pc = "once_ret"
    /\ result.kind = "Ok"
    /\ integration_time # it_at_trigger
    /\ reading.red = 65535

(***************************************************************************)
(* C9                                                                      *)
(***************************************************************************)
Relative == {"TooDarkRelative", "TooBrightRelative"}

\* C9: read_absolute_retry never returns a relative failure; it returns the
\* result of read_absolute_once at once when that is a success or an absolute
\* failure; after a relative failure it calls read_absolute_once again, and
\* that call triggers with the setting the failed call switched to.
C9_RetryOnRelativeOnly ==
    /\ []((op = "retry" /\ pc = "idle") => retResult.kind \notin Relative)
    /\ [][(op = "retry" /\ pc = "once_ret") =>
            IF result.kind \in {"Ok", "TooDarkAbsolute", "TooBrightAbsolute"}
            THEN pc' = "idle" /\ retResult' = result
            ELSE result.kind \in Relative =>
                    /\ pc' = "once_start"
                    /\ calls' = calls + 1
                    /\ integration_time' = integration_time
                    /\ integration_time =
                          (IF result.kind = "TooDarkRelative"
                           THEN NextLonger(it_at_trigger)
                           ELSE NextShorter(it_at_trigger))]_vars
    /\ [][pc = "once_start" => it_at_trigger' = integration_time]_vars

\* read_absolute_retry is about to call again after a relative failure
C9_Witness ==
    /\ op = "retry"
    /\ pc = "once_start"
    /\ calls = 2
    /\ result.kind = "TooBrightRelative"
    /\ integration_time = NextShorter(it_at_trigger)

(***************************************************************************)
(* C10                                                                     *)
(***************************************************************************)
\* C10: when the constructor has returned over a working transport the
\* active setting is 160 ms, the third shortest; shadow and device hold the
\* same byte with SHUTDOWN clear, the integration-time field at the pattern
\* of 160 ms and AF set; the constructor made exactly three bus operations,
\* the writes of enable, set_integration_time and set_measurement_mode in
\* this order, none of them with TRIG set.
C10_Constructed ==
    (op = "new" /\ pc = "idle") =>
        /\ millis(integration_time) = 160
        /\ Cardinality({t \in IntegrationTime :
                            millis(t) < millis(integration_time)}) = 2
        /\ config = device
        /\ Bit(config, 0) = 0
        /\ ItField(config) = 32
        /\ Bit(config, 1) = 1
        /\ Len(bus) = 3
        /\ \A i \in 1..3 : /\ bus[i].ev = "write"
                           /\ bus[i].reg = CONFIG
                           /\ bus[i].ok
                           /\ Bit(bus[i].val, 2) = 0
        /\ bus[1].val = BitAnd(DEFAULT_CONFIG, 254)
        /\ bus[2].val = BitAnd(bus[1].val, 143) + 32
        /\ bus[3].val = bus[2].val + 2

\* the constructor has returned
C10_Witness ==
    /\ op = "new"
    /\ pc = "idle"
    /\ Len(bus) = 3
    /\ device = 34

(***************************************************************************)
(* C11                                                                     *)
(***************************************************************************)
\* C11: no operation of the controller panics; a transport failure, also
\* during one of the three configuration writes of the constructor, reaches
\* the caller as an error value.
C11_NoPanic == pc # "panicked"

(***************************************************************************)
(* C12                                                                     *)
(***************************************************************************)
ConfigOps == {"enable", "disable", "set_integration_time", "set_measurement_mode"}

\* C12: after enable, disable, set_integration_time or set_measurement_mode
\* whose bus write failed the operation has returned a transport error and
\* the shadow is what it was before; after one whose write succeeded the
\* shadow is exactly the byte written.
C12_ShadowFollowsSuccessfulWrite ==
    (pc = "reg" /\ op \in ConfigOps) =>
        /\ Len(bus) = 1
        /\ IF bus[1].ok
           THEN retResult = UnitOk /\ config = bus[1].val
           ELSE retResult = I2CErr /\ config = config_at_trigger

\* a failed disable of an enabled device: the byte sent differs from the
\* shadow
C12_Witness ==
    /\ pc = "reg"
    /\ op = "disable"
    /\ ~bus[1].ok
    /\ bus[1].val # config
    /\ Bit(config, 0) = 0

(***************************************************************************)
(* C13                                                                     *)
(***************************************************************************)
\* C13: the shadow never has TRIG set; trigger_measurement sends the shadow
\* with TRIG set and leaves the shadow unchanged; every byte sent by enable,
\* disable, set_integration_time or set_measurement_mode, also directly after
\* a trigger, has TRIG clear.
C13_TriggerBitNotStored ==
    /\ Bit(config, 2) = 0
    /\ (pc = "reg" /\ op = "trigger_measurement") =>
          /\ Bit(bus[1].val, 2) = 1
          /\ bus[1].val = config_at_trigger + TRIG
          /\ config = config_at_trigger
    /\ (pc = "reg" /\ op \in ConfigOps) => Bit(bus[1].val, 2) = 0

\* an acknowledged trigger of an enabled device in manual mode: the device
\* has seen TRIG, the shadow has not
C13_Witness ==
    /\ pc = "reg"
    /\ op = "trigger_measurement"
    /\ bus[1].ok
    /\ Bit(device, 2) = 1
    /\ Bit(config, 2) = 0
    /\ Bit(config, 1) = 1
    /\ Bit(config, 0) = 0

(***************************************************************************)
(* C14                                                                     *)
(***************************************************************************)
RECURSIVE LongerN(_, _)
\* longer applied n times, None once the ladder is left
LongerN(s, n) ==
    IF n = 0 THEN s
    ELSE LET p == LongerN(s, n - 1) IN IF p = None THEN None ELSE longer(p)

RECURSIVE ShorterN(_, _)
\* shorter applied n times, None once the ladder is left
ShorterN(s, n) ==
    IF n = 0 THEN s
    ELSE LET p == ShorterN(s, n - 1) IN IF p = None THEN None ELSE shorter(p)

\* C14: longer and shorter are inverse partial functions on the six
\* settings; five steps of longer lead from 40 ms to 1280 ms, which has no
\* longer setting, and five steps of shorter from 1280 ms to 40 ms, which has
\* no shorter setting; the step a call of read_absolute_once took is undone
\* by the opposite step.
C14_LadderInverse ==
    /\ \A s \in IntegrationTime :
          /\ longer(s) \in IntegrationTime \cup {None}
          /\ shorter(s) \in IntegrationTime \cup {None}
          /\ \A t \in IntegrationTime : (longer(s) = t) <=> (shorter(t) = s)
    /\ LongerN("_40ms", LadderDepth) = "_1280ms"
    /\ LongerN("_40ms", LadderDepth + 1) = None
    /\ ShorterN("_1280ms", LadderDepth) = "_40ms"
    /\ ShorterN("_1280ms", LadderDepth + 1) = None
    /\ \A n \in 1..LadderDepth :
          /\ millis(LongerN("_40ms", n)) > millis(LongerN("_40ms", n - 1))
          /\ millis(ShorterN("_1280ms", n)) < millis(ShorterN("_1280ms", n - 1))
    /\ (pc = "once_ret" /\ integration_time # it_at_trigger) =>
          \/ /\ integration_time = longer(it_at_trigger)
             /\ shorter(integration_time) = it_at_trigger
          \/ /\ integration_time = shorter(it_at_trigger)
             /\ longer(integration_time) = it_at_trigger

\* a retry that took five steps of shorter, from 1280 ms down to 40 ms
C14_Witness ==
    /\ op = "retry"
    /\ pc = "idle"
    /\ ~ioFailed
    /\ relDirs = {"bright"}
    /\ calls = LadderDepth + 1
    /\ integration_time = "_40ms"

(***************************************************************************)
(* C15                                                                     *)
(***************************************************************************)
\* bus holds the log of a call of read_absolute_once
CallLog == op \in {"once", "retry"} /\ ~(pc = "once_start" /\ calls = 1)

\* the i-th event of a call of read_absolute_once
Expected(e, i) ==
    CASE i = 1 -> e.ev = "write" /\ e.reg = CONFIG /\ Bit(e.val, 2) = 1
      [] i = 2 -> e.ev = "sleep" /\ e.val = millis(it_at_trigger) + 40
      [] i = 3 -> e.ev = "read" /\ e.reg = R_DATA
      [] i = 4 -> e.ev = "read" /\ e.reg = G_DATA
      [] i = 5 -> e.ev = "read" /\ e.reg = B_DATA
      [] i = 6 -> e.ev = "read" /\ e.reg = W_DATA
      [] i = 7 -> /\ e.ev = "write" /\ e.reg = CONFIG /\ Bit(e.val, 2) = 0
                  /\ integration_time # it_at_trigger
                  /\ ItField(e.val) = bit_pattern(integration_time)
      [] OTHER -> FALSE

\* C15: the events of a call of read_absolute_once are, in this order, one
\* trigger write, one wait of duration + 40 ms of the setting active when the
\* call triggered, the reads of red, green, blue and white, and at most one
\* integration-time write; a call that returns a result has made all of them
\* up to the reads.
C15_OrderOfEvents ==
    CallLog =>
        /\ Len(bus) >= 1
        /\ \A i \in 1..Len(bus) : Expected(bus[i], i)
        /\ \A i \in 1..(Len(bus) - 1) : bus[i].ok
        /\ OnceReturned => (Len(bus) >= 6 /\ bus[Len(bus)].ok)
        /\ pc \in {"read_red", "read_green", "read_blue", "read_white"} =>
              bus[Len(bus)].ev # "write"

\* a call that waited with the old setting and then switched
C15_Witness ==
    /\ CallLog
    /\ pc = "once_ret"
    /\ Len(bus) = 7
    /\ it_at_trigger = "_80ms"
    /\ integration_time = "_160ms"
    /\ bus[2].val = 120

(***************************************************************************)
(* C16                                                                     *)
(***************************************************************************)
\* C16: when the trigger write or one of the four channel reads of a call of
\* read_absolute_once failed, the failed operation is the last bus operation
\* of the call, the call yields a read error, and the active setting and the
\* shadow are what they were when the call began.
C16_FailImmediately ==
    CallLog =>
        \A i \in 1..Len(bus) :
            (~bus[i].ok /\ i <= 6) =>
                /\ i = Len(bus)
                /\ pc \in {"once_ret", "once_start", "idle"}
                /\ result = ReadErr
                /\ integration_time = it_at_trigger
                /\ config = config_at_trigger

\* a call whose read of the green channel failed
C16_Witness ==
    /\ CallLog
    /\ pc = "once_ret"
    /\ Len(bus) = 4
    /\ ~bus[4].ok
    /\ bus[4].reg = G_DATA

(***************************************************************************)
(* C17                                                                     *)
(***************************************************************************)
\* bytes a and b agree on every bit outside the set S
SameOutside(a, b, S) == \A n \in (0..7) \ S : Bit(a, n) = Bit(b, n)

\* C17: a successful enable or disable changes only SHUTDOWN, a successful
\* set_measurement_mode only AF, a successful set_integration_time only bits
\* 4-6, which then hold the pattern of the requested setting; applying any
\* of them a second time leaves the shadow as it is.
C17_FrameAndIdempotence ==
    /\ (pc = "reg" /\ op \in ConfigOps /\ bus[1].ok) =>
          LET before == config_at_trigger
              arg == new_integration_time_opt
          IN CASE op = "enable" ->
                    Bit(config, 0) = 0 /\ SameOutside(config, before, {0})
               [] op = "disable" ->
                    Bit(config, 0) = 1 /\ SameOutside(config, before, {0})
               [] op = "set_measurement_mode" ->
                    /\ Bit(config, 1) = (IF arg = "Manual" THEN 1 ELSE 0)
                    /\ SameOutside(config, before, {1})
               [] op = "set_integration_time" ->
                    /\ ItField(config) = bit_pattern(arg)
                    /\ SameOutside(config, before, {4, 5, 6})
    /\ enable_byte(enable_byte(config)) = enable_byte(config)
    /\ disable_byte(disable_byte(config)) = disable_byte(config)
    /\ \A mode \in MeasurementMode :
          set_measurement_mode_byte(set_measurement_mode_byte(config, mode), mode)
              = set_measurement_mode_byte(config, mode)
    /\ \A it \in IntegrationTime :
          set_integration_time_byte(set_integration_time_byte(config, it), it)
              = set_integration_time_byte(config, it)

\* set_integration_time replaced 320 ms by 640 ms on an enabled device in
\* manual mode
C17_Witness ==
    /\ pc = "reg"
    /\ op = "set_integration_time"
    /\ bus[1].ok
    /\ new_integration_time_opt = "_640ms"
    /\ config_at_trigger = 50
    /\ config = 66

(***************************************************************************)
(* C18                                                                     *)
(***************************************************************************)
\* the constructor has returned
Constructed == pc \notin {"new_enable", "new_set_it", "new_set_mode", "panicked"}

\* C18: once the controller is constructed, the active setting is the one
\* encoded in the integration-time field of the shadow, also after calls
\* that ended in a transport error.
C18_ActiveSettingIsShadowSetting ==
    Constructed => ItField(config) = bit_pattern(integration_time)

(***************************************************************************)
(* C19                                                                     *)
(***************************************************************************)
\* the six integration-time patterns, as values of bits 4-6
ItPatterns == {bit_pattern(t) \div 16 : t \in IntegrationTime}

\* SHUTDOWN clear, AF set and one of the six integration-time patterns
Measuring(byte) ==
    /\ byte % 2 = 0
    /\ (byte \div 2) % 2 = 1
    /\ (byte \div 16) % 8 \in ItPatterns

\* C19: once the controller is constructed, every byte a call of
\* read_absolute_once writes to the CONFIG register, and with it the shadow
\* and the byte the device holds, has SHUTDOWN clear, AF set and a valid
\* integration-time pattern.
C19_StaysEnabledAndManual ==
    Constructed =>
        /\ Measuring(config)
        /\ Measuring(device)
        /\ CallLog => \A i \in 1..Len(bus) :
                          bus[i].ev = "write" => Measuring(bus[i].val)

\* a call that wrote the trigger and a new integration time
C19_Witness ==
    /\ CallLog
    /\ pc = "once_ret"
    /\ Len(Writes) = 2
    /\ Writes[2].ok
    /\ device = 82

====
